---- MODULE Spec2Model ----
(***************************************************************************)
(* Projects, users and per-project permissions of the text-recognition     *)
(* service: the three tables of app/models.py, the queries of app/crud.py  *)
(* and the request handlers of app/routes/projects.py.                     *)
(*                                                                         *)
(* A table is the set of its rows.  A handler is a sequence of database    *)
(* statements: Step runs the next statement of a request, Run runs a       *)
(* request to its response.  Response serialisation is not modelled: a     *)
(* response is the status the handler returns or raises, and its body.     *)
(***************************************************************************)
EXTENDS Integers, Sequences, FiniteSets, TLC

\* ------------------------------------------------------------ bounds
\* how many distinct usernames clients send (usernames are unique, so also
\* the largest number of users)
NumUsernames == 2
\* the largest project id the model mints
MaxProjects == 2
\* how many requests are in flight at once in the concurrent specifications
NumClients == 2

\* ------------------------------------------------------------ values
\* SQL NULL / Python None of a nullable string column
NULL == "NULL"
\* query.first() on no row
None == [none |-> TRUE]

Usernames == 1..NumUsernames
UserIds == 1..NumUsernames
ProjectIds == 1..MaxProjects
Clients == 1..NumClients
\* a falsy user_id query parameter (absent, or 0): no user has it as id
NoUserId == 0

\* what clients send as name, description and image_path
Names == {"n1"}
Descriptions == {NULL}
ImagePaths == {NULL, "img1"}
\* permission_level is a free-form string (schemas.py).  The routes compare it
\* with 'admin' and 'model_editor', the comment of models.py adds
\* 'user_model_only' (the three are the admin, editor and viewer of the
\* specification), and the tests also write 'editor'.
Levels == {"admin", "model_editor", "user_model_only", "editor"}
Dialects == {"postgresql", "sqlite"}

\* the fields of ProjectBase a client may leave out, and those the clients
\* of the model send or leave out when they update a project
OptionalFields == {"description", "image_path", "is_public"}
SentOrNot == {"description", "is_public"}

\* ------------------------------------------------------------ state
VARIABLES
    dialect,          \* the engine db.py builds: DATABASE_URL or in-memory SQLite
    users,            \* table users: rows [id, username]
    projects,         \* table projects: rows [id, name, description, image_path, is_public]
    perms,            \* table user_project_permissions: rows [user_id, project_id, permission_level]
    project_id_seq,   \* PostgreSQL's projects_id_seq: the last id it handed out
    last,             \* the handler that ran last and the status it answered
    reqs,             \* the requests in flight, one slot per client
    uploads           \* the files of UPLOAD_DIR: [path, extension, size]

vars == <<dialect, users, projects, perms, project_id_seq, last, reqs, uploads>>

\* the database as one value, for the operators below
DB == [dialect |-> dialect, users |-> users, projects |-> projects,
       perms |-> perms, project_id_seq |-> project_id_seq]

Max(S) == CHOOSE x \in S : \A y \in S : y <= x

\* rows of projects as a query without ORDER BY returns them: in primary-key
\* order
RECURSIVE ById(_)
ById(S) ==
    IF S = {} THEN <<>>
    ELSE LET r == CHOOSE x \in S : \A y \in S : x.id <= y.id
         IN <<r>> \o ById(S \ {r})

\* rows of user_project_permissions of one user, in primary-key order
RECURSIVE ByProjectId(_)
ByProjectId(S) ==
    IF S = {} THEN <<>>
    ELSE LET r == CHOOSE x \in S : \A y \in S : x.project_id <= y.project_id
         IN <<r>> \o ByProjectId(S \ {r})

Range(s) == {s[i] : i \in 1..Len(s)}

\* query.first(): one of the rows, or None
First(S) == IF S = {} THEN None ELSE CHOOSE r \in S : TRUE

\* ------------------------------------------------------------ models.py
\* as UsernameTaken, were username not declared unique
UsernameTaken_NotUnique(db, username) == FALSE

\* users.username is UNIQUE
UsernameTaken(db, username) == \E u \in db.users : u.username = username

\* (user_id, project_id) is the primary key of user_project_permissions
PrimaryKeyTaken(db, user_id, project_id) ==
    \E g \in db.perms : g.user_id = user_id /\ g.project_id = project_id

\* the two foreign keys of user_project_permissions; SQLite does not enforce
\* foreign keys unless the connection turns them on, and db.py does not
ForeignKeysHold(db, user_id, project_id) ==
    db.dialect = "postgresql" =>
        /\ \E u \in db.users : u.id = user_id
        /\ \E p \in db.projects : p.id = project_id

\* the id an INSERT into users gets (no row of users is ever deleted)
NewUserId(db) == IF db.users = {} THEN 1 ELSE Max({u.id : u \in db.users}) + 1

\* the id an INSERT into projects gets: PostgreSQL draws from the sequence,
\* SQLite's INTEGER PRIMARY KEY takes the largest id in the table plus one
NewProjectId(db) ==
    IF db.dialect = "postgresql" THEN db.project_id_seq + 1
    ELSE IF db.projects = {} THEN 1
    ELSE Max({p.id : p \in db.projects}) + 1

\* ------------------------------------------------------------ crud.py: reads
get_user(db, user_id) == First({u \in db.users : u.id = user_id})

get_user_by_username(db, username) ==
    First({u \in db.users : u.username = username})

get_project(db, project_id) == First({p \in db.projects : p.id = project_id})

get_user_project_permission(db, user_id, project_id) ==
    First({g \in db.perms : g.user_id = user_id /\ g.project_id = project_id})

\* ------------------------------------------------------------ crud.py: writes
\* A write returns the database after it, the value the function returns and
\* whether it raised (an IntegrityError of the commit, which rolls back).
Returned(db, ret) == [db |-> db, ret |-> ret, raised |-> FALSE]
Raised(db) == [db |-> db, ret |-> None, raised |-> TRUE]

create_user(db, username) ==
    IF UsernameTaken(db, username) THEN Raised(db)
    ELSE LET db_user == [id |-> NewUserId(db), username |-> username]
         IN Returned([db EXCEPT !.users = @ \cup {db_user}], db_user)

\* the sequence keeps the id it handed out also when the transaction rolls back
Drawn(db, id) ==
    IF db.dialect = "postgresql" THEN [db EXCEPT !.project_id_seq = id] ELSE db

\* as create_project, were the project committed at the flush
create_project_CommitAtFlush(db, project, user_id) ==
    LET id == NewProjectId(db)
        db_project == [id |-> id, name |-> project.name,
                       description |-> project.description,
                       image_path |-> NULL,
                       is_public |-> project.is_public]
        db_permission == [user_id |-> user_id, project_id |-> id,
                          permission_level |-> "admin"]
        flushed == [db EXCEPT !.projects = @ \cup {db_project}]
    IN IF \/ PrimaryKeyTaken(db, user_id, id)
          \/ ~ForeignKeysHold(flushed, user_id, id)
       THEN Raised(Drawn(flushed, id))
       ELSE Returned(Drawn([flushed EXCEPT !.perms = @ \cup {db_permission}], id),
                     db_project)

create_project(db, project, user_id) ==
    LET id == NewProjectId(db)
        db_project == [id |-> id, name |-> project.name,
                       description |-> project.description,
                       image_path |-> NULL,
                       is_public |-> project.is_public]
        db_permission == [user_id |-> user_id, project_id |-> id,
                          permission_level |-> "admin"]
        flushed == [db EXCEPT !.projects = @ \cup {db_project}]
    IN IF \/ PrimaryKeyTaken(db, user_id, id)
          \/ ~ForeignKeysHold(flushed, user_id, id)
       THEN Raised(Drawn(db, id))
       ELSE Returned(Drawn([flushed EXCEPT !.perms = @ \cup {db_permission}], id),
                     db_project)

\* as Patched, with model_dump() in place of model_dump(exclude_unset=True):
\* every field of the ProjectBase is written, sent or not
Patched_AllFields(row, project_update) ==
    [f \in DOMAIN row |->
        IF f \in DOMAIN project_update.val THEN project_update.val[f] ELSE row[f]]

\* project_update: [val |-> the ProjectBase, set |-> the fields the client sent]
Patched(row, project_update) ==
    [f \in DOMAIN row |->
        IF f \in project_update.set THEN project_update.val[f] ELSE row[f]]

update_project(db, project_id, project_update) ==
    LET db_project == get_project(db, project_id)
    IN IF db_project = None THEN Returned(db, None)
       ELSE LET new == Patched(db_project, project_update)
            IN Returned([db EXCEPT !.projects = (@ \ {db_project}) \cup {new}], new)

\* as delete_project, without the delete of the project's permissions
delete_project_KeepPermissions(db, project_id) ==
    LET db_project == get_project(db, project_id)
    IN IF db_project = None THEN Returned(db, None)
       ELSE Returned([db EXCEPT !.projects = @ \ {db_project}], db_project)

\* as delete_project, deleting the permissions before looking at the project
delete_project_AlwaysCascade(db, project_id) ==
    LET db_project == get_project(db, project_id)
        cascaded == [db EXCEPT !.perms = {g \in @ : g.project_id # project_id}]
    IN IF db_project = None THEN Returned(cascaded, None)
       ELSE Returned([cascaded EXCEPT !.projects = @ \ {db_project}], db_project)

delete_project(db, project_id) ==
    LET db_project == get_project(db, project_id)
    IN IF db_project = None THEN Returned(db, None)
       ELSE Returned([db EXCEPT
                !.perms = {g \in @ : g.project_id # project_id},
                !.projects = @ \ {db_project}], db_project)

create_user_project_permission(db, permission) ==
    IF \/ PrimaryKeyTaken(db, permission.user_id, permission.project_id)
       \/ ~ForeignKeysHold(db, permission.user_id, permission.project_id)
    THEN Raised(db)
    ELSE Returned([db EXCEPT !.perms = @ \cup {permission}], permission)

\* as update_user_project_permission, inserting the permission it does not find
update_user_project_permission_Upsert(db, user_id, project_id, permission_level) ==
    LET db_permission == get_user_project_permission(db, user_id, project_id)
        new == [user_id |-> user_id, project_id |-> project_id,
                permission_level |-> permission_level]
    IN Returned([db EXCEPT !.perms = (@ \ {db_permission}) \cup {new}], new)

update_user_project_permission(db, user_id, project_id, permission_level) ==
    LET db_permission == get_user_project_permission(db, user_id, project_id)
    IN IF db_permission = None THEN Returned(db, None)
       ELSE LET new == [db_permission EXCEPT !.permission_level = permission_level]
            IN Returned([db EXCEPT !.perms = (@ \ {db_permission}) \cup {new}], new)

\* as delete_user_project_permission, reporting a delete also when it finds
\* no permission
delete_user_project_permission_Quiet(db, user_id, project_id) ==
    LET db_permission == get_user_project_permission(db, user_id, project_id)
    IN Returned([db EXCEPT !.perms = @ \ {db_permission}],
                [user_id |-> user_id, project_id |-> project_id])

\* as delete_user_project_permission, deleting the user's permissions on
\* every project
delete_user_project_permission_AllOfUser(db, user_id, project_id) ==
    LET db_permission == get_user_project_permission(db, user_id, project_id)
    IN IF db_permission = None THEN Returned(db, None)
       ELSE Returned([db EXCEPT !.perms = {g \in @ : g.user_id # user_id}],
                     db_permission)

delete_user_project_permission(db, user_id, project_id) ==
    LET db_permission == get_user_project_permission(db, user_id, project_id)
    IN IF db_permission = None THEN Returned(db, None)
       ELSE Returned([db EXCEPT !.perms = @ \ {db_permission}], db_permission)

\* ------------------------------------------------------------ crud.py: get_user_projects
\* Query 1: the ids of the projects the user has a permission on
Query1(db, user_id) ==
    LET rows == ByProjectId({g \in db.perms : g.user_id = user_id})
    IN [i \in 1..Len(rows) |-> rows[i].project_id]

\* as Query2, without the filter on user_project_ids
Query2_NoExclusion(db, user_project_ids) ==
    ById({p \in db.projects : p.is_public = TRUE})

\* as Query2, without the filter on is_public
Query2_AnyProject(db, user_project_ids) ==
    ById({p \in db.projects :
            IF user_project_ids # <<>>
            THEN p.id \notin Range(user_project_ids) ELSE TRUE})

\* Query 2: the public projects whose id is not among user_project_ids
Query2(db, user_project_ids) ==
    ById({p \in db.projects :
            /\ p.is_public = TRUE
            /\ IF user_project_ids # <<>>
               THEN p.id \notin Range(user_project_ids) ELSE TRUE})

\* Query 3: the projects whose id is among user_project_ids
Query3(db, user_project_ids) ==
    IF user_project_ids # <<>>
    THEN ById({p \in db.projects : p.id \in Range(user_project_ids)})
    ELSE <<>>

\* the user's permissions, read again
Query4(db, user_id) == ByProjectId({g \in db.perms : g.user_id = user_id})

\* permission_dict.get(project_id, 'public_access'): a later row of
\* user_permissions replaces an earlier one with the same project_id
PermissionLevel(user_permissions, project_id) ==
    LET at == {i \in 1..Len(user_permissions) :
                 user_permissions[i].project_id = project_id}
    IN IF at = {} THEN "public_access"
       ELSE user_permissions[Max(at)].permission_level

Attach(projects_list, user_permissions) ==
    [i \in 1..Len(projects_list) |->
        [id |-> projects_list[i].id,
         name |-> projects_list[i].name,
         description |-> projects_list[i].description,
         image_path |-> projects_list[i].image_path,
         is_public |-> projects_list[i].is_public,
         permission_level |->
            PermissionLevel(user_permissions, projects_list[i].id)]]

\* as get_user_projects_reads, with the two lists combined the other way round
get_user_projects_reads_PublicFirst(db1, db2, db3, db4, user_id) ==
    LET user_project_ids == Query1(db1, user_id)
        public_projects == Query2(db2, user_project_ids)
        permission_projects == Query3(db3, user_project_ids)
    IN Attach(public_projects \o permission_projects, Query4(db4, user_id))

\* the four reads of get_user_projects, each against the database it sees
get_user_projects_reads(db1, db2, db3, db4, user_id) ==
    LET user_project_ids == Query1(db1, user_id)
        public_projects == Query2(db2, user_project_ids)
        permission_projects == Query3(db3, user_project_ids)
    IN Attach(permission_projects \o public_projects, Query4(db4, user_id))

get_user_projects(db, user_id) == get_user_projects_reads(db, db, db, db, user_id)

\* ------------------------------------------------------------ routes/projects.py
\* A request: the handler (op), its arguments (a), the statement it runs next
\* (pc), what it has read so far (l) and, once pc = "done", its response.
Request(op, a) ==
    [op |-> op, a |-> a, pc |-> "start", l |-> None, status |-> 0, body |-> None]

\* Each handler maps the database and a request to both after the request's
\* next statement.
Reply(db, r, status, body) ==
    [db |-> db, r |-> [r EXCEPT !.pc = "done", !.l = None,
                                !.status = status, !.body = body]]
Goto(db, r, pc, l) == [db |-> db, r |-> [r EXCEPT !.pc = pc, !.l = l]]

\* as MayUpdate, letting any permission pass
MayUpdate_AnyPermission(permission) == permission # None

\* the check of update_project_endpoint
MayUpdate(permission) ==
    ~(\/ permission = None
      \/ permission.permission_level \notin {"admin", "model_editor"})

\* the check of delete_project_endpoint and of the three permission endpoints
IsAdmin(permission) ==
    ~(permission = None \/ permission.permission_level # "admin")

create_user_endpoint(db, r) ==
    IF r.pc = "start"
    THEN IF get_user_by_username(db, r.a.username) # None
         THEN Reply(db, r, 400, None)
         ELSE Goto(db, r, "create_user", None)
    ELSE LET out == create_user(db, r.a.username)
         IN IF out.raised THEN Reply(out.db, r, 500, None)
            ELSE Reply(out.db, r, 200, out.ret)

\* as read_user_projects_endpoint, without the look for the user
read_user_projects_endpoint_NoUserCheck(db, r) ==
    Reply(db, r, 200, get_user_projects(db, r.a.user_id))

read_user_projects_endpoint(db, r) ==
    CASE r.pc = "start" ->
            IF get_user(db, r.a.user_id) = None
            THEN Reply(db, r, 404, None)
            ELSE Goto(db, r, "query1", None)
      [] r.pc = "query1" ->
            Goto(db, r, "query2", [ids |-> Query1(db, r.a.user_id)])
      [] r.pc = "query2" ->
            Goto(db, r, "query3",
                 [ids |-> r.l.ids, public |-> Query2(db, r.l.ids)])
      [] r.pc = "query3" ->
            Goto(db, r, "query4",
                 [projects |-> Query3(db, r.l.ids) \o r.l.public])
      [] OTHER ->
            Reply(db, r, 200, Attach(r.l.projects, Query4(db, r.a.user_id)))

\* as create_project_endpoint, without the look for the creating user
create_project_endpoint_NoUserCheck(db, r) ==
    LET out == create_project(db, r.a.project, r.a.user_id)
    IN IF out.raised THEN Reply(out.db, r, 500, None)
       ELSE Reply(out.db, r, 200, out.ret)

create_project_endpoint(db, r) ==
    IF r.pc = "start"
    THEN IF get_user(db, r.a.user_id) = None
         THEN Reply(db, r, 404, None)
         ELSE Goto(db, r, "create_project", None)
    ELSE LET out == create_project(db, r.a.project, r.a.user_id)
         IN IF out.raised THEN Reply(out.db, r, 500, None)
            ELSE Reply(out.db, r, 200, out.ret)

\* as read_project_endpoint, with no look at the permission of a named user
read_project_endpoint_NoLookup(db, r) ==
    LET db_project == get_project(db, r.a.project_id)
    IN IF db_project = None THEN Reply(db, r, 404, None)
       ELSE IF db_project.is_public THEN Reply(db, r, 200, db_project)
       ELSE IF r.a.user_id # NoUserId THEN Reply(db, r, 200, db_project)
       ELSE Reply(db, r, 403, None)

read_project_endpoint(db, r) ==
    IF r.pc = "start"
    THEN LET db_project == get_project(db, r.a.project_id)
         IN IF db_project = None THEN Reply(db, r, 404, None)
            ELSE IF db_project.is_public THEN Reply(db, r, 200, db_project)
            ELSE IF r.a.user_id # NoUserId
                 THEN Goto(db, r, "permission", [db_project |-> db_project])
            ELSE Reply(db, r, 403, None)
    ELSE IF get_user_project_permission(db, r.a.user_id, r.a.project_id) # None
         THEN Reply(db, r, 200, r.l.db_project)
         ELSE Reply(db, r, 403, None)

update_project_endpoint(db, r) ==
    IF r.pc = "start"
    THEN IF ~MayUpdate(get_user_project_permission(db, r.a.user_id, r.a.project_id))
         THEN Reply(db, r, 403, None)
         ELSE Goto(db, r, "update_project", None)
    ELSE LET out == update_project(db, r.a.project_id, r.a.project_update)
         IN IF out.ret = None THEN Reply(out.db, r, 404, None)
            ELSE Reply(out.db, r, 200, out.ret)

delete_project_endpoint(db, r) ==
    IF r.pc = "start"
    THEN IF ~IsAdmin(get_user_project_permission(db, r.a.user_id, r.a.project_id))
         THEN Reply(db, r, 403, None)
         ELSE Goto(db, r, "delete_project", None)
    ELSE LET out == delete_project(db, r.a.project_id)
         IN IF out.ret = None THEN Reply(out.db, r, 404, None)
            ELSE Reply(out.db, r, 200, None)

\* the check whether the permission already exists
Existing(db, r) ==
    get_user_project_permission(db, r.a.permission.user_id, r.a.project_id)

add_project_permission_endpoint(db, r) ==
    CASE r.pc = "start" ->
            IF ~IsAdmin(get_user_project_permission(db, r.a.admin_user_id,
                                                    r.a.project_id))
            THEN Reply(db, r, 403, None)
            ELSE Goto(db, r, "get_project", None)
      [] r.pc = "get_project" ->
            Goto(db, r, "get_user",
                 [db_project |-> get_project(db, r.a.project_id)])
      [] r.pc = "get_user" ->
            IF r.l.db_project = None THEN Reply(db, r, 404, None)
            ELSE IF get_user(db, r.a.permission.user_id) = None
                 THEN Reply(db, r, 404, None)
            ELSE Goto(db, r, "existing", None)
      [] r.pc = "existing" ->
            IF Existing(db, r) # None THEN Reply(db, r, 409, None)
            ELSE Goto(db, r, "create_permission", None)
      [] OTHER ->
            LET out == create_user_project_permission(db, r.a.permission)
            IN IF out.raised THEN Reply(out.db, r, 500, None)
               ELSE Reply(out.db, r, 200, out.ret)

update_project_permission_endpoint(db, r) ==
    IF r.pc = "start"
    THEN IF ~IsAdmin(get_user_project_permission(db, r.a.admin_user_id,
                                                 r.a.project_id))
         THEN Reply(db, r, 403, None)
         ELSE Goto(db, r, "update_permission", None)
    ELSE LET out == update_user_project_permission(db, r.a.user_id,
                        r.a.project_id, r.a.permission_update.permission_level)
         IN IF out.ret = None THEN Reply(out.db, r, 404, None)
            ELSE Reply(out.db, r, 200, out.ret)

\* as remove_project_permission_endpoint, refusing to remove the only 'admin'
\* permission of a project
remove_project_permission_endpoint_LastAdminGuard(db, r) ==
    IF r.pc = "start"
    THEN IF ~IsAdmin(get_user_project_permission(db, r.a.admin_user_id,
                                                 r.a.project_id))
         THEN Reply(db, r, 403, None)
         ELSE Goto(db, r, "delete_permission", None)
    ELSE LET held == get_user_project_permission(db, r.a.user_id, r.a.project_id)
             out == delete_user_project_permission(db, r.a.user_id, r.a.project_id)
         IN IF /\ IsAdmin(held)
               /\ \A g \in db.perms :
                     (g.project_id = r.a.project_id
                      /\ g.permission_level = "admin") => g = held
            THEN Reply(db, r, 400, None)
            ELSE IF out.ret = None THEN Reply(out.db, r, 404, None)
            ELSE Reply(out.db, r, 200, None)

remove_project_permission_endpoint(db, r) ==
    IF r.pc = "start"
    THEN IF ~IsAdmin(get_user_project_permission(db, r.a.admin_user_id,
                                                 r.a.project_id))
         THEN Reply(db, r, 403, None)
         ELSE Goto(db, r, "delete_permission", None)
    ELSE LET out == delete_user_project_permission(db, r.a.user_id, r.a.project_id)
         IN IF out.ret = None THEN Reply(out.db, r, 404, None)
            ELSE Reply(out.db, r, 200, None)

\* the next statement of request r
Step(db, r) ==
    CASE r.op = "create_user" -> create_user_endpoint(db, r)
      [] r.op = "read_user_projects" -> read_user_projects_endpoint(db, r)
      [] r.op = "create_project" -> create_project_endpoint(db, r)
      [] r.op = "read_project" -> read_project_endpoint(db, r)
      [] r.op = "update_project" -> update_project_endpoint(db, r)
      [] r.op = "delete_project" -> delete_project_endpoint(db, r)
      [] r.op = "add_project_permission" -> add_project_permission_endpoint(db, r)
      [] r.op = "update_project_permission" ->
            update_project_permission_endpoint(db, r)
      [] OTHER -> remove_project_permission_endpoint(db, r)

\* request r served with no other request running meanwhile
RECURSIVE Run(_, _)
Run(db, r) ==
    IF r.pc = "done" THEN [db |-> db, r |-> r]
    ELSE LET next == Step(db, r) IN Run(next.db, next.r)

\* ------------------------------------------------------------ services/file_handler.py
ALLOWED_IMAGE_TYPES == {"image/jpeg", "image/png", "image/gif", "image/tiff"}
MAX_IMAGE_SIZE_MB == 10
MAX_IMAGE_SIZE_BYTES == MAX_IMAGE_SIZE_MB * 1024 * 1024

\* the paths uuid4 names in UPLOAD_DIR (the extension is kept beside the path)
SavedPaths == {"uploaded_images/1", "uploaded_images/2"}

\* os.path.splitext(file.filename)[1].lower(); "" when the name has no extension
Lower(extension) ==
    CASE extension = ".PNG" -> ".png"
      [] extension = ".TXT" -> ".txt"
      [] OTHER -> extension

\* a uuid4 name collides with no file of the directory
NewPath(files) == CHOOSE path \in SavedPaths : \A f \in files : f.path # path

\* The directory after the call, the path returned, and the status of the
\* HTTPException raised (0: none).  The file is copied whole: the size checks
\* of lines 37-47 and 95-102 are comments.
save_uploaded_image(files, file) ==
    IF file.content_type \notin ALLOWED_IMAGE_TYPES
    THEN [uploads |-> files, ret |-> None, raised |-> 400]
    ELSE IF file.extension = ""
    THEN [uploads |-> files, ret |-> None, raised |-> 400]
    ELSE LET path == NewPath(files)
             saved == [path |-> path, extension |-> Lower(file.extension),
                       size |-> file.size]
         IN [uploads |-> files \cup {saved}, ret |-> path, raised |-> 0]

\* saved_image_path.unlink() when saved_image_path.exists()
Unlink(files, path) == {f \in files : f.path # path}

\* ------------------------------------------------------------ routes/ocr.py
\* The database and the directory after the request, and the response.  The
\* HTTPException(404) of line 45 is raised inside the try of line 37, whose
\* except Exception (line 61) catches it and raises the 500 of lines 65-68.
upload_image_and_create_project(db, files, a) ==
    LET saved == save_uploaded_image(files, a.file)
    IN IF saved.raised # 0
       THEN [db |-> db, uploads |-> saved.uploads, status |-> saved.raised,
             body |-> None]
       ELSE IF get_user(db, a.user_id) = None
       THEN [db |-> db, uploads |-> Unlink(saved.uploads, saved.ret),
             status |-> 500, body |-> None]
       ELSE LET project == [name |-> a.project_name,
                            description |-> a.project_description,
                            image_path |-> saved.ret,
                            is_public |-> a.is_public]
                out == create_project(db, project, a.user_id)
            IN IF out.raised
               THEN [db |-> out.db, uploads |-> Unlink(saved.uploads, saved.ret),
                     status |-> 500, body |-> None]
               ELSE [db |-> out.db, uploads |-> saved.uploads, status |-> 200,
                     body |-> [project_id |-> out.ret.id,
                               image_path |-> saved.ret]]

\* ------------------------------------------------------------ what clients send
\* schemas.ProjectBase / ProjectCreate
ProjectBases ==
    [name : Names, description : Descriptions, image_path : ImagePaths,
     is_public : BOOLEAN]

\* the defaults of the fields a client leaves out
ProjectDefaults ==
    [name |-> "n1", description |-> NULL, image_path |-> NULL, is_public |-> FALSE]

\* a ProjectBase with the set of fields the client sent (name is required)
ProjectUpdates ==
    {u \in [val : ProjectBases,
            set : {S \cup {"name"} : S \in SUBSET SentOrNot}] :
        \A f \in OptionalFields \ u.set : u.val[f] = ProjectDefaults[f]}

\* schemas.UserProjectPermissionBase / UserProjectPermissionCreate
Permissions ==
    [user_id : UserIds, project_id : ProjectIds, permission_level : Levels]

CreateUserRequests ==
    {Request("create_user", [username |-> n]) : n \in Usernames}

ReadUserProjectsRequests ==
    {Request("read_user_projects", [user_id |-> u]) : u \in UserIds}

CreateProjectRequests ==
    {Request("create_project", [project |-> p, user_id |-> u]) :
        p \in ProjectBases, u \in UserIds}

ReadProjectRequests ==
    {Request("read_project", [project_id |-> p, user_id |-> u]) :
        p \in ProjectIds, u \in UserIds \cup {NoUserId}}

UpdateProjectRequests ==
    {Request("update_project",
             [project_id |-> p, project_update |-> pu, user_id |-> u]) :
        p \in ProjectIds, pu \in ProjectUpdates, u \in UserIds}

DeleteProjectRequests ==
    {Request("delete_project", [project_id |-> p, user_id |-> u]) :
        p \in ProjectIds, u \in UserIds}

AddProjectPermissionRequests ==
    {Request("add_project_permission",
             [project_id |-> p, permission |-> g, admin_user_id |-> a]) :
        p \in ProjectIds, g \in Permissions, a \in UserIds}

\* the handler reads only permission_level of the body
UpdateProjectPermissionRequests ==
    {Request("update_project_permission",
             [project_id |-> p, user_id |-> u, admin_user_id |-> a,
              permission_update |->
                [user_id |-> u, project_id |-> p, permission_level |-> lv]]) :
        p \in ProjectIds, u \in UserIds, a \in UserIds, lv \in Levels}

RemoveProjectPermissionRequests ==
    {Request("remove_project_permission",
             [project_id |-> p, user_id |-> u, admin_user_id |-> a]) :
        p \in ProjectIds, u \in UserIds, a \in UserIds}

\* ------------------------------------------------------------ the service
Idle == [op |-> "idle"]
NoResponse == [op |-> "none", status |-> 0]

Init ==
    /\ dialect \in Dialects
    /\ users = {}
    /\ projects = {}
    /\ perms = {}
    /\ project_id_seq = 0
    /\ last = NoResponse
    /\ reqs = [c \in Clients |-> Idle]
    /\ uploads = {}

\* the model mints no project id above MaxProjects
WithinBounds(db) ==
    /\ db.project_id_seq <= MaxProjects
    /\ \A p \in db.projects : p.id <= MaxProjects

Commit(db) ==
    /\ WithinBounds(db)
    /\ users' = db.users
    /\ projects' = db.projects
    /\ perms' = db.perms
    /\ project_id_seq' = db.project_id_seq
    /\ UNCHANGED dialect

\* no response is being sent and no request is in flight
Ready ==
    /\ last = NoResponse
    /\ \A c \in Clients : reqs[c] = Idle

\* one request served from start to response, alone
Serve(r) ==
    LET out == Run(DB, r)
    IN /\ Commit(out.db)
       /\ last' = [op |-> r.op, status |-> out.r.status]
       /\ UNCHANGED <<reqs, uploads>>

\* the response is sent; the next request may come
Return ==
    /\ last # NoResponse
    /\ last' = NoResponse
    /\ UNCHANGED <<dialect, users, projects, perms, project_id_seq, reqs, uploads>>

CreateUser ==
    /\ Ready
    /\ \E r \in CreateUserRequests : Serve(r)
ReadUserProjects ==
    /\ Ready
    /\ \E r \in ReadUserProjectsRequests : Serve(r)
CreateProject ==
    /\ Ready
    /\ \E r \in CreateProjectRequests : Serve(r)
ReadProject ==
    /\ Ready
    /\ \E r \in ReadProjectRequests : Serve(r)
UpdateProject ==
    /\ Ready
    /\ \E r \in UpdateProjectRequests : Serve(r)
DeleteProject ==
    /\ Ready
    /\ \E r \in DeleteProjectRequests : Serve(r)
AddProjectPermission ==
    /\ Ready
    /\ \E r \in AddProjectPermissionRequests : Serve(r)
UpdateProjectPermission ==
    /\ Ready
    /\ \E r \in UpdateProjectPermissionRequests : Serve(r)
RemoveProjectPermission ==
    /\ Ready
    /\ \E r \in RemoveProjectPermissionRequests : Serve(r)

Next ==
    \/ CreateUser
    \/ ReadUserProjects
    \/ CreateProject
    \/ ReadProject
    \/ UpdateProject
    \/ DeleteProject
    \/ AddProjectPermission
    \/ UpdateProjectPermission
    \/ RemoveProjectPermission
    \/ Return

\* requests served one at a time
Spec == Init /\ [][Next]_vars

\* ------------------------------------------------------------ requests in flight
\* the levels the concurrent add-permission requests of the model ask for
RaceLevels == {"model_editor", "user_model_only"}

\* add-permission requests whose body names the project of the path
RaceRequests ==
    {r \in AddProjectPermissionRequests :
        /\ r.a.permission.project_id = r.a.project_id
        /\ r.a.permission.permission_level \in RaceLevels}

\* client c sends a request
Begin(c) ==
    /\ last = NoResponse
    /\ reqs[c] = Idle
    /\ \E r \in RaceRequests : reqs' = [reqs EXCEPT ![c] = r]
    /\ UNCHANGED <<dialect, users, projects, perms, project_id_seq, last, uploads>>

\* the handler of client c's request runs its next statement; every statement
\* sees what is committed when it runs
Statement(c) ==
    /\ reqs[c] # Idle
    /\ reqs[c].pc # "done"
    /\ LET out == Step(DB, reqs[c])
       IN /\ Commit(out.db)
          /\ reqs' = [reqs EXCEPT ![c] = out.r]
    /\ UNCHANGED <<last, uploads>>

\* client c has its response
Finish(c) ==
    /\ reqs[c] # Idle
    /\ reqs[c].pc = "done"
    /\ reqs' = [reqs EXCEPT ![c] = Idle]
    /\ UNCHANGED <<dialect, users, projects, perms, project_id_seq, last, uploads>>

NextRace ==
    \/ CreateUser
    \/ CreateProject
    \/ Return
    \/ \E c \in Clients : Begin(c)
    \/ \E c \in Clients : Statement(c)
    \/ \E c \in Clients : Finish(c)

\* users and projects are created one request at a time; add-permission
\* requests run concurrently, statement by statement
SpecRace == Init /\ [][NextRace]_vars

\* ------------------------------------------------------------ reads in flight
\* the user who creates and deletes the projects of SpecReads
Owner == 1

\* create-project and delete-project requests of Owner
OwnerRequests ==
    {r \in CreateProjectRequests \cup DeleteProjectRequests :
        /\ r.a.user_id = Owner
        /\ r.op = "create_project" => r.a.project.image_path = NULL}

\* client c asks for a user's project list or for a project
BeginRead(c) ==
    /\ last = NoResponse
    /\ reqs[c] = Idle
    /\ \E r \in ReadUserProjectsRequests \cup ReadProjectRequests :
          reqs' = [reqs EXCEPT ![c] = r]
    /\ UNCHANGED <<dialect, users, projects, perms, project_id_seq, last, uploads>>

\* client c, as Owner, asks to create or to delete a project
BeginWrite(c) ==
    /\ last = NoResponse
    /\ reqs[c] = Idle
    /\ \E r \in OwnerRequests : reqs' = [reqs EXCEPT ![c] = r]
    /\ UNCHANGED <<dialect, users, projects, perms, project_id_seq, last, uploads>>

NextReads ==
    \/ CreateUser
    \/ Return
    \/ \E c \in Clients : BeginRead(c)
    \/ \E c \in Clients : BeginWrite(c)
    \/ \E c \in Clients : Statement(c)
    \/ \E c \in Clients : Finish(c)

\* users are created one request at a time; Owner's create-project and
\* delete-project requests and everybody's reads run concurrently, statement
\* by statement, each statement seeing what is committed when it runs
SpecReads == Init /\ [][NextReads]_vars

\* ------------------------------------------------------------ updates of every field
\* what the clients of SpecUpdate send as name and description
WideNames == {"n1", "n2"}
WideDescriptions == {NULL, "d1"}

\* a ProjectBase with the set of fields the client sent, any field sent or not
WideProjectUpdates ==
    {u \in [val : [name : WideNames, description : WideDescriptions,
                   image_path : ImagePaths, is_public : BOOLEAN],
            set : {S \cup {"name"} : S \in SUBSET OptionalFields}] :
        \A f \in OptionalFields \ u.set : u.val[f] = ProjectDefaults[f]}

WideUpdateRequests ==
    {Request("update_project",
             [project_id |-> p, project_update |-> pu, user_id |-> u]) :
        p \in ProjectIds, pu \in WideProjectUpdates, u \in UserIds}

\* Owner's add-permission requests giving the other users 'model_editor'
EditorRequests ==
    {r \in AddProjectPermissionRequests :
        /\ r.a.admin_user_id = Owner
        /\ r.a.permission.user_id # Owner
        /\ r.a.permission.permission_level = "model_editor"}

UpdateProjectWide ==
    /\ Ready
    /\ \E r \in WideUpdateRequests : Serve(r)

AddEditor ==
    /\ Ready
    /\ \E r \in EditorRequests : Serve(r)

CreateProjectOwner ==
    /\ Ready
    /\ \E r \in OwnerRequests : r.op = "create_project" /\ Serve(r)

NextUpdate ==
    \/ CreateUser
    \/ CreateProjectOwner
    \/ AddEditor
    \/ UpdateProjectWide
    \/ Return

\* requests served one at a time; updates send any subset of the fields
SpecUpdate == Init /\ [][NextUpdate]_vars

\* ------------------------------------------------------------ levels of any spelling
\* the levels the comment of models.py lists: the viewer, editor and admin of
\* the specification
RoleLevels == {"user_model_only", "model_editor", "admin"}

\* what the clients of SpecLevels send as permission_level: a role, and the
\* string get_user_projects uses for a project seen through its public flag
SentLevels == {"user_model_only", "public_access"}

\* add-permission requests naming one project, with a level of SentLevels
AddLevelRequests ==
    {Request("add_project_permission",
             [project_id |-> p,
              permission |-> [user_id |-> u, project_id |-> p,
                              permission_level |-> lv],
              admin_user_id |-> a]) :
        p \in ProjectIds, u \in UserIds, a \in UserIds, lv \in SentLevels}

\* update-permission requests with a level of SentLevels
UpdateLevelRequests ==
    {Request("update_project_permission",
             [project_id |-> p, user_id |-> u, admin_user_id |-> a,
              permission_update |->
                [user_id |-> u, project_id |-> p, permission_level |-> lv]]) :
        p \in ProjectIds, u \in UserIds, a \in UserIds, lv \in SentLevels}

AddLevel ==
    /\ Ready
    /\ \E r \in AddLevelRequests : Serve(r)

UpdateLevel ==
    /\ Ready
    /\ \E r \in UpdateLevelRequests : Serve(r)

NextLevels ==
    \/ CreateUser
    \/ CreateProject
    \/ AddLevel
    \/ UpdateLevel
    \/ Return

\* requests served one at a time; permission levels sent are any string
SpecLevels == Init /\ [][NextLevels]_vars

\* ------------------------------------------------------------ grants and deletes in flight
\* add-permission requests naming one project, for the level 'user_model_only'
GrantRequests ==
    {r \in RaceRequests : r.a.permission.permission_level = "user_model_only"}

\* client c asks to add a permission
BeginGrant(c) ==
    /\ last = NoResponse
    /\ reqs[c] = Idle
    /\ \E r \in GrantRequests : reqs' = [reqs EXCEPT ![c] = r]
    /\ UNCHANGED <<dialect, users, projects, perms, project_id_seq, last, uploads>>

\* client c asks to delete a project
BeginDelete(c) ==
    /\ last = NoResponse
    /\ reqs[c] = Idle
    /\ \E r \in DeleteProjectRequests : reqs' = [reqs EXCEPT ![c] = r]
    /\ UNCHANGED <<dialect, users, projects, perms, project_id_seq, last, uploads>>

NextDelete ==
    \/ CreateUser
    \/ CreateProject
    \/ Return
    \/ \E c \in Clients : BeginGrant(c)
    \/ \E c \in Clients : BeginDelete(c)
    \/ \E c \in Clients : Statement(c)
    \/ \E c \in Clients : Finish(c)

\* users and projects are created one request at a time; add-permission and
\* delete-project requests run concurrently, statement by statement
SpecDelete == Init /\ [][NextDelete]_vars

\* ------------------------------------------------------------ create-user in flight
\* client c asks to create a user
BeginCreateUser(c) ==
    /\ last = NoResponse
    /\ reqs[c] = Idle
    /\ \E r \in CreateUserRequests : reqs' = [reqs EXCEPT ![c] = r]
    /\ UNCHANGED <<dialect, users, projects, perms, project_id_seq, last, uploads>>

NextUsers ==
    \/ \E c \in Clients : BeginCreateUser(c)
    \/ \E c \in Clients : Statement(c)
    \/ \E c \in Clients : Finish(c)

\* create-user requests run concurrently, statement by statement
SpecUsers == Init /\ [][NextUsers]_vars

\* ------------------------------------------------------------ uploads
\* what clients upload: the content type, the extension of the file name and
\* the number of bytes
ContentTypes == {"image/png", "text/plain"}
Extensions == {"", ".PNG"}
Sizes == {1, MAX_IMAGE_SIZE_BYTES, MAX_IMAGE_SIZE_BYTES + 1}
UploadFiles == [content_type : ContentTypes, extension : Extensions, size : Sizes]

UploadRequests ==
    [file : UploadFiles, user_id : UserIds, project_name : Names,
     project_description : Descriptions, is_public : BOOLEAN]

\* one upload served from start to response, alone
UploadImage ==
    /\ Ready
    /\ \E a \in UploadRequests :
          LET out == upload_image_and_create_project(DB, uploads, a)
          IN /\ Cardinality(uploads) < Cardinality(SavedPaths)
             /\ Commit(out.db)
             /\ uploads' = out.uploads
             /\ last' = [op |-> "upload_image", status |-> out.status]
             /\ UNCHANGED reqs

NextUpload ==
    \/ CreateUser
    \/ UploadImage
    \/ DeleteProject
    \/ Return

SpecUpload == Init /\ [][NextUpload]_vars

\* ------------------------------------------------------------ project ids
NextIds ==
    \/ CreateUser
    \/ CreateProject
    \/ DeleteProject
    \/ Return

\* projects created and deleted, one request at a time
SpecIds == Init /\ [][NextIds]_vars

\* ------------------------------------------------------------ lists in flight
\* what Owner, administrator of every project, sends while lists are read:
\* add-permission and remove-permission for another user, update-project
\* setting is_public, and delete-project
ChangeRequests ==
    {r \in AddProjectPermissionRequests :
        /\ r.a.admin_user_id = Owner
        /\ r.a.permission.user_id # Owner
        /\ r.a.permission.project_id = r.a.project_id
        /\ r.a.permission.permission_level = "user_model_only"}
    \cup {r \in RemoveProjectPermissionRequests :
            r.a.admin_user_id = Owner /\ r.a.user_id # Owner}
    \cup {r \in UpdateProjectRequests :
            r.a.user_id = Owner /\ r.a.project_update.set = {"name", "is_public"}}
    \cup {r \in DeleteProjectRequests : r.a.user_id = Owner}

\* client c asks for a user's project list
BeginList(c) ==
    /\ last = NoResponse
    /\ reqs[c] = Idle
    /\ \E r \in ReadUserProjectsRequests : reqs' = [reqs EXCEPT ![c] = r]
    /\ UNCHANGED <<dialect, users, projects, perms, project_id_seq, last, uploads>>

\* client c, as Owner, asks for a change
BeginChange(c) ==
    /\ last = NoResponse
    /\ reqs[c] = Idle
    /\ \E r \in ChangeRequests : reqs' = [reqs EXCEPT ![c] = r]
    /\ UNCHANGED <<dialect, users, projects, perms, project_id_seq, last, uploads>>

NextList ==
    \/ CreateUser
    \/ CreateProjectOwner
    \/ Return
    \/ \E c \in Clients : BeginList(c)
    \/ \E c \in Clients : BeginChange(c)
    \/ \E c \in Clients : Statement(c)
    \/ \E c \in Clients : Finish(c)

\* users and Owner's projects are created one request at a time; lists and
\* Owner's changes run concurrently, statement by statement, each statement
\* seeing what is committed when it runs
SpecList == Init /\ [][NextList]_vars

\* ------------------------------------------------------------ gated requests in flight
\* what Owner sends: update-project setting is_public, delete-project,
\* update-permission to 'user_model_only' and remove-permission
GatedRequests ==
    {r \in UpdateProjectRequests :
        r.a.user_id = Owner /\ r.a.project_update.set = {"name", "is_public"}}
    \cup {r \in DeleteProjectRequests : r.a.user_id = Owner}
    \cup {r \in UpdateProjectPermissionRequests :
            /\ r.a.admin_user_id = Owner
            /\ r.a.permission_update.permission_level = "user_model_only"}
    \cup {r \in RemoveProjectPermissionRequests : r.a.admin_user_id = Owner}

\* client c, as Owner, sends a gated request
BeginGated(c) ==
    /\ last = NoResponse
    /\ reqs[c] = Idle
    /\ \E r \in GatedRequests : reqs' = [reqs EXCEPT ![c] = r]
    /\ UNCHANGED <<dialect, users, projects, perms, project_id_seq, last, uploads>>

NextGate ==
    \/ CreateUser
    \/ CreateProjectOwner
    \/ Return
    \/ \E c \in Clients : BeginGated(c)
    \/ \E c \in Clients : Statement(c)
    \/ \E c \in Clients : Finish(c)

\* users and Owner's projects are created one request at a time; gated
\* requests run concurrently, statement by statement
SpecGate == Init /\ [][NextGate]_vars

\* ------------------------------------------------------------ properties
\* the response to request r and the database after it, were it served now
Outcome(r) == Run(DB, r)

\* a request can start (the database of a state where a response is being
\* sent is the database of the state after it)
CanStart == last = NoResponse

\* the permission user_id holds on project_id, or None
Held(user_id, project_id) == get_user_project_permission(DB, user_id, project_id)

ProjectExists(project_id) == get_project(DB, project_id) # None

\* C1 (as claimed): no two permissions share (user_id, project_id), and an
\* administrator's add-permission for a pair that already has a permission is
\* answered 409 Conflict and changes nothing.
C1_GrantConflict ==
    /\ \A g1, g2 \in perms :
          (g1.user_id = g2.user_id /\ g1.project_id = g2.project_id) => g1 = g2
    /\ CanStart =>
          \A r \in AddProjectPermissionRequests :
             (/\ IsAdmin(Held(r.a.admin_user_id, r.a.project_id))
              /\ Held(r.a.permission.user_id, r.a.permission.project_id) # None)
             => (Outcome(r).r.status = 409 /\ Outcome(r).db = DB)

\* C3: create-project either answers 200 and adds one project together with
\* the creator's 'admin' permission on it, or answers an error and adds
\* neither a project nor a permission.
C3_AtomicBootstrap ==
    CanStart =>
       \A r \in CreateProjectRequests :
          LET out == Outcome(r)
              new == out.db.projects \ projects
          IN \/ /\ out.r.status = 200
                /\ Cardinality(new) = 1
                /\ projects \subseteq out.db.projects
                /\ \A p \in new :
                      out.db.perms = perms \cup
                         {[user_id |-> r.a.user_id, project_id |-> p.id,
                           permission_level |-> "admin"]}
             \/ /\ out.r.status # 200
                /\ out.db.projects = projects
                /\ out.db.perms = perms

\* C3 witness: a create-project whose permission insert failed has answered
C3_Witness ==
    /\ last = [op |-> "create_project", status |-> 500]
    /\ projects # {}

\* the ids of the entries of a project list
ListedIds(l) == {l[i].id : i \in 1..Len(l)}

\* C4: get_user_projects lists no project twice, and lists every project the
\* user holds a permission on with that permission's level, public or not.
C4_ListExplicit ==
    \A u \in UserIds :
       LET l == get_user_projects(DB, u)
       IN /\ \A i, j \in 1..Len(l) : l[i].id = l[j].id => i = j
          /\ \A g \in perms :
                (g.user_id = u /\ ProjectExists(g.project_id)) =>
                   \E i \in 1..Len(l) :
                      /\ l[i].id = g.project_id
                      /\ l[i].permission_level = g.permission_level

\* C4 witness: the list was served while a user held a permission other than
\* 'admin' on a public project
C4_Witness ==
    /\ last = [op |-> "read_user_projects", status |-> 200]
    /\ \E g \in perms, p \in projects :
          p.id = g.project_id /\ p.is_public /\ g.permission_level # "admin"

\* C5: get_user_projects lists every public project the user holds no
\* permission on as 'public_access', and no private project the user holds no
\* permission on.
C5_ListPublic ==
    \A u \in UserIds :
       LET l == get_user_projects(DB, u)
       IN \A p \in projects :
             Held(u, p.id) = None =>
                /\ p.is_public =>
                      \E i \in 1..Len(l) :
                         l[i].id = p.id /\ l[i].permission_level = "public_access"
                /\ ~p.is_public => p.id \notin ListedIds(l)

\* C5 witness: the list was served while some user could see a public project
\* through its flag only and had no permission on a private one
C5_Witness ==
    /\ last = [op |-> "read_user_projects", status |-> 200]
    /\ \E u \in users, p \in projects, q \in projects :
          /\ p.is_public /\ Held(u.id, p.id) = None
          /\ ~q.is_public /\ Held(u.id, q.id) = None

\* C6: after a delete-project answered 200 the project is gone, nobody holds a
\* permission on it and nobody's project list has it.
C6_CascadeOnDelete ==
    CanStart =>
       \A r \in DeleteProjectRequests :
          LET out == Outcome(r)
          IN out.r.status = 200 =>
                /\ get_project(out.db, r.a.project_id) = None
                /\ \A u \in UserIds :
                      /\ get_user_project_permission(out.db, u, r.a.project_id) = None
                      /\ r.a.project_id \notin ListedIds(get_user_projects(out.db, u))

\* C6 witness: a project was deleted while another one, with its permissions,
\* stays
C6_Witness ==
    /\ last = [op |-> "delete_project", status |-> 200]
    /\ Cardinality(projects) = 1
    /\ perms # {}

\* C7: update-project answers 403 and changes nothing when the user holds no
\* permission on the project (public or not) or one that is neither 'admin'
\* nor 'model_editor' (the specification's admin and editor), and does not
\* answer 403 when the user holds one of these two.
C7_UpdateGate ==
    CanStart =>
       \A r \in UpdateProjectRequests :
          LET g == Held(r.a.user_id, r.a.project_id)
              out == Outcome(r)
          IN IF g = None \/ g.permission_level \notin {"admin", "model_editor"}
             THEN out.r.status = 403 /\ out.db = DB
             ELSE out.r.status # 403

\* C7 witness: an update was refused while every project id is that of a
\* public project and some user holds 'user_model_only'
C7_Witness ==
    /\ last = [op |-> "update_project", status |-> 403]
    /\ \A id \in ProjectIds : \E p \in projects : p.id = id /\ p.is_public
    /\ \E g \in perms : g.permission_level = "user_model_only"

\* the project a gated request acts on
Target(r) ==
    IF r.op = "add_project_permission" THEN r.a.permission.project_id
    ELSE r.a.project_id

\* the user a gated request acts for
Actor(r) == IF r.op = "delete_project" THEN r.a.user_id ELSE r.a.admin_user_id

\* C8 (as claimed): delete-project, add-, update- and remove-permission on an
\* existing project by a user who holds no 'admin' permission on that project
\* are answered 403 and change nothing.
C8_AdminGate ==
    CanStart =>
       \A r \in DeleteProjectRequests \cup AddProjectPermissionRequests
                \cup UpdateProjectPermissionRequests
                \cup RemoveProjectPermissionRequests :
          (ProjectExists(Target(r)) /\ ~IsAdmin(Held(Actor(r), Target(r)))) =>
             (Outcome(r).r.status = 403 /\ Outcome(r).db = DB)

\* C9: reading an existing project answers 200 when it is public; when it is
\* private it answers 200 if the request names a user who holds a permission
\* on it, and 403 otherwise.
C9_ReadProject ==
    CanStart =>
       \A r \in ReadProjectRequests :
          LET db_project == get_project(DB, r.a.project_id)
              status == Outcome(r).r.status
          IN db_project # None =>
                IF db_project.is_public THEN status = 200
                ELSE IF r.a.user_id # NoUserId
                        /\ Held(r.a.user_id, r.a.project_id) # None
                     THEN status = 200
                     ELSE status = 403

\* C9 witness: the read of a private project was refused
C9_Witness ==
    /\ last = [op |-> "read_project", status |-> 403]
    /\ Cardinality(users) = 2

\* C10: an administrator's update-permission answers 404 and changes nothing
\* when the user holds no permission on the project; otherwise it answers 200
\* and replaces the level of that permission, and of no other, by the one sent.
C10_SetPermission ==
    CanStart =>
       \A r \in UpdateProjectPermissionRequests :
          LET old == Held(r.a.user_id, r.a.project_id)
              out == Outcome(r)
              new == [user_id |-> r.a.user_id, project_id |-> r.a.project_id,
                      permission_level |-> r.a.permission_update.permission_level]
          IN IsAdmin(Held(r.a.admin_user_id, r.a.project_id)) =>
                IF old = None
                THEN out.r.status = 404 /\ out.db = DB
                ELSE /\ out.r.status = 200
                     /\ out.db.perms = (perms \ {old}) \cup {new}
                     /\ get_user_project_permission(out.db, r.a.user_id,
                                                    r.a.project_id) = new
                     /\ out.db.projects = projects

\* C10 witness: an update-permission for a user without permission was
\* answered 404
C10_Witness ==
    /\ last = [op |-> "update_project_permission", status |-> 404]
    /\ \E g \in perms : g.permission_level = "admin"

\* two clients have their responses to add-permission requests for the same
\* user and project
SamePair(c1, c2) ==
    /\ c1 # c2
    /\ reqs[c1] # Idle /\ reqs[c1].pc = "done"
    /\ reqs[c2] # Idle /\ reqs[c2].pc = "done"
    /\ reqs[c1].a.permission.user_id = reqs[c2].a.permission.user_id
    /\ reqs[c1].a.permission.project_id = reqs[c2].a.permission.project_id

\* C2 (as claimed): of two add-permission requests for the same user and
\* project, with any interleaving of their statements, at most one is answered
\* 200, the table holds one permission for the pair, and when one is answered
\* 200 the other, unless refused as 403 or 404, is answered 409 Conflict.
C2_RaceOneConflict ==
    /\ \A g1, g2 \in perms :
          (g1.user_id = g2.user_id /\ g1.project_id = g2.project_id) => g1 = g2
    /\ \A c1, c2 \in Clients :
          (SamePair(c1, c2) /\ reqs[c1].status = 200
              /\ reqs[c2].status \notin {403, 404})
          => reqs[c2].status = 409

\* C11: for a caller holding 'admin' on the project, remove-permission answers
\* 404 and changes nothing when the user holds no permission on the project;
\* otherwise it answers 200 and deletes that permission and nothing else,
\* after which the lookup finds none, delete_user_project_permission returns
\* None, and the same request repeated changes nothing and is answered 404
\* (403 when the caller removed the own 'admin' permission), never 200.
C11_Revoke ==
    CanStart =>
       \A r \in RemoveProjectPermissionRequests :
          IsAdmin(Held(r.a.admin_user_id, r.a.project_id)) =>
             LET g == Held(r.a.user_id, r.a.project_id)
                 out == Outcome(r)
                 again == Run(out.db, r)
                 engine == delete_user_project_permission(
                              out.db, r.a.user_id, r.a.project_id)
             IN /\ engine.ret = None /\ engine.db = out.db
                /\ get_user_project_permission(
                      out.db, r.a.user_id, r.a.project_id) = None
                /\ IF g = None
                   THEN out.r.status = 404 /\ out.db = DB
                   ELSE /\ out.r.status = 200
                        /\ out.db = [DB EXCEPT !.perms = @ \ {g}]
                        /\ again.db = out.db
                        /\ again.r.status =
                              IF r.a.user_id = r.a.admin_user_id THEN 403 ELSE 404

\* C11 witness: a remove-permission for a pair without permission was
\* answered 404 while both users exist
C11_Witness ==
    /\ last = [op |-> "remove_project_permission", status |-> 404]
    /\ Cardinality(users) = NumUsernames

\* C12: create-project for a user_id no user has is answered 404 and changes
\* nothing.
C12_CreatorNotFound ==
    CanStart =>
       \A r \in CreateProjectRequests :
          get_user(DB, r.a.user_id) = None =>
             (Outcome(r).r.status = 404 /\ Outcome(r).db = DB)

\* C12 witness: a create-project was answered 404 while another user exists
C12_Witness ==
    /\ last = [op |-> "create_project", status |-> 404]
    /\ users # {}

\* C15: delete_project of a project id no project has returns None and
\* changes nothing, and delete-project for it, sent by a user holding 'admin'
\* on that id, is answered 404 and changes nothing.
C15_DeleteNotFound ==
    CanStart =>
       \A r \in DeleteProjectRequests :
          ~ProjectExists(r.a.project_id) =>
             /\ delete_project(DB, r.a.project_id) = Returned(DB, None)
             /\ IsAdmin(Held(r.a.user_id, r.a.project_id)) =>
                   (Outcome(r).r.status = 404 /\ Outcome(r).db = DB)

\* C15 witness: a delete-project was answered 404 and permissions are left
C15_Witness ==
    /\ last = [op |-> "delete_project", status |-> 404]
    /\ perms # {}

\* C17: in get_user_projects no project listed through its public flag only
\* comes before a project the user holds a permission on.
C17_ExplicitFirst ==
    \A u \in UserIds :
       LET l == get_user_projects(DB, u)
       IN \A i, j \in 1..Len(l) :
             (Held(u, l[i].id) = None /\ Held(u, l[j].id) # None) => j < i

\* C17 witness: the list was served while a user holds a permission on
\* project 2 and sees project 1, of the smaller id, through its public flag
C17_Witness ==
    /\ last = [op |-> "read_user_projects", status |-> 200]
    /\ \E u \in users, p \in projects, q \in projects :
          /\ p.id < q.id
          /\ p.is_public /\ Held(u.id, p.id) = None
          /\ Held(u.id, q.id) # None

\* the public projects, each as get_user_projects lists it for a user without
\* permission
PublicOnly ==
    Attach(ById({p \in projects : p.is_public}), <<>>)

\* C18 (as claimed): the list of a user_id no user has is served and holds
\* the public projects as 'public_access' (stated for the states with a
\* public project).
C18_ListNeverFails ==
    CanStart =>
       \A r \in ReadUserProjectsRequests :
          (get_user(DB, r.a.user_id) = None /\ \E p \in projects : p.is_public) =>
             (Outcome(r).r.status = 200 /\ Outcome(r).r.body = PublicOnly)

\* C18: for a user_id no user has, get_user_projects returns the public
\* projects as 'public_access' and nothing else, and read-user-projects is
\* answered 404.
C18_UnknownUser ==
    CanStart =>
       \A r \in ReadUserProjectsRequests :
          get_user(DB, r.a.user_id) = None =>
             /\ get_user_projects(DB, r.a.user_id) = PublicOnly
             /\ Outcome(r).r.status = 404
             /\ Outcome(r).db = DB

\* C18 witness: the list of an unknown user was refused while a public
\* project exists
C18_Witness ==
    /\ last = [op |-> "read_user_projects", status |-> 404]
    /\ \E p \in projects : p.is_public

\* client c has the response to a read it sent for user_id
HasRead(c, op, user_id) ==
    /\ reqs[c] # Idle
    /\ reqs[c].pc = "done"
    /\ reqs[c].op = op
    /\ reqs[c].a.user_id = user_id

\* every project in the tables has Owner's 'admin' permission and every
\* permission has its project
TablesWhole ==
    /\ \A p \in projects :
          [user_id |-> Owner, project_id |-> p.id,
           permission_level |-> "admin"] \in perms
    /\ \A g \in perms : \E p \in projects : p.id = g.project_id

\* C13 (as claimed), where Owner creates and deletes every project and no
\* permission is written but by these requests: the tables are whole, and no
\* read of Owner shows a project without Owner's 'admin' permission: Owner's
\* list tags every entry 'admin', and Owner's read of a project is never
\* refused with 403.
C13_NoIntermediateState ==
    /\ TablesWhole
    /\ \A c \in Clients :
          /\ (HasRead(c, "read_user_projects", Owner) /\ reqs[c].status = 200) =>
                \A i \in 1..Len(reqs[c].body) :
                   reqs[c].body[i].permission_level = "admin"
          /\ HasRead(c, "read_project", Owner) => reqs[c].status # 403

\* the columns of projects a ProjectBase has
ProjectFields == {"name", "description", "image_path", "is_public"}

\* C14: for a caller that passes the check of update-project, the update of a
\* project id no project has is answered 404 and changes nothing
\* (update_project returns None); the update of a project is answered 200 and
\* the project's row gets the value sent for every field sent, keeps its
\* value for every field not sent and keeps its id, and nothing else changes.
C14_PartialUpdate ==
    CanStart =>
       \A r \in WideUpdateRequests :
          MayUpdate(Held(r.a.user_id, r.a.project_id)) =>
             LET old == get_project(DB, r.a.project_id)
                 patch == r.a.project_update
                 out == Outcome(r)
                 new == get_project(out.db, r.a.project_id)
             IN IF old = None
                THEN /\ out.r.status = 404
                     /\ out.db = DB
                     /\ update_project(DB, r.a.project_id, patch) = Returned(DB, None)
                ELSE /\ out.r.status = 200
                     /\ new # None
                     /\ out.r.body = new
                     /\ new.id = old.id
                     /\ \A f \in ProjectFields :
                           new[f] = IF f \in patch.set THEN patch.val[f] ELSE old[f]
                     /\ out.db = [DB EXCEPT !.projects = (@ \ {old}) \cup {new}]

\* C14 witness: an update was served and a project has a name, an image_path
\* and a flag that only updates write, with the description create-project
\* gave it
C14_Witness ==
    /\ last = [op |-> "update_project", status |-> 200]
    /\ \E p \in projects :
          /\ p.name = "n2" /\ p.image_path = "img1" /\ p.is_public
          /\ p.description = NULL

\* C16 (as claimed): for a caller holding 'admin' on the project of the
\* path, add-permission is answered 404 and changes nothing when a project it
\* names (in the path or in the body) does not exist or when the user of the
\* body does not exist.
C16_GrantNotFound ==
    CanStart =>
       \A r \in AddProjectPermissionRequests :
          (/\ IsAdmin(Held(r.a.admin_user_id, r.a.project_id))
           /\ \/ ~ProjectExists(r.a.project_id)
              \/ ~ProjectExists(r.a.permission.project_id)
              \/ get_user(DB, r.a.permission.user_id) = None)
          => (Outcome(r).r.status = 404 /\ Outcome(r).db = DB)

\* C19 (as claimed): the level of every row of user_project_permissions is
\* one of the three roles; 'public_access' in particular is never stored.
C19_RolesOnly == \A g \in perms : g.permission_level \in RoleLevels

\* every permission is of a user and of a project in the tables
NoDangling ==
    \A g \in perms :
       /\ \E u \in users : u.id = g.user_id
       /\ \E p \in projects : p.id = g.project_id

\* C20 (as claimed): in every state, add-permission and delete-project
\* running concurrently, every permission is of a user and of a project in
\* the tables.
C20_GrantsHaveProject == NoDangling

\* the same with foreign keys enforced
ForeignKeysEnforced == dialect = "postgresql" => NoDangling

\* C21: no two users share a username; a create-user for a username in use,
\* served alone, is answered 400 and adds no user; and one that found the
\* username free and inserts after another request took it is answered an
\* error (500) and adds no user.
C21_UniqueUsernames ==
    /\ \A u1, u2 \in users : u1.username = u2.username => u1 = u2
    /\ \A r \in CreateUserRequests :
          UsernameTaken(DB, r.a.username) =>
             (Outcome(r).r.status = 400 /\ Outcome(r).db = DB)
    /\ \A c \in Clients :
          (/\ reqs[c] # Idle
           /\ reqs[c].pc = "create_user"
           /\ \E u \in users : u.username = reqs[c].a.username)
          => LET out == Step(DB, reqs[c])
             IN out.r.status = 500 /\ out.db = DB

\* C21 witness: of two concurrent create-user requests for one username one
\* was answered 200 and the other, having found the username free, 500
C21_Witness ==
    \E c1, c2 \in Clients :
       /\ reqs[c1] # Idle /\ reqs[c1].pc = "done" /\ reqs[c1].status = 200
       /\ reqs[c2] # Idle /\ reqs[c2].pc = "done" /\ reqs[c2].status = 500
       /\ reqs[c1].a.username = reqs[c2].a.username

\* a file can be saved
CanUpload == CanStart /\ Cardinality(uploads) < Cardinality(SavedPaths)

\* C22 (as claimed): save_uploaded_image raises and saves no file for every
\* upload of more than MAX_IMAGE_SIZE_BYTES bytes, so that no file of the
\* directory is larger.
C22_SizeLimit == \A f \in uploads : f.size <= MAX_IMAGE_SIZE_BYTES

\* what the handler does check: the content type and the extension
C22_TypeAndExtension ==
    CanUpload =>
       \A file \in UploadFiles :
          LET out == save_uploaded_image(uploads, file)
          IN IF file.content_type \in ALLOWED_IMAGE_TYPES /\ file.extension # ""
             THEN out.raised = 0 /\ out.uploads \ uploads =
                     {[path |-> out.ret, extension |-> Lower(file.extension),
                       size |-> file.size]}
             ELSE out.raised = 400 /\ out.uploads = uploads

\* the 'admin' permissions on project_id in database db
Admins(db, project_id) ==
    {g \in db.perms : g.project_id = project_id /\ g.permission_level = "admin"}

\* C23: when one user holds the only 'admin' permission on an existing
\* project, that user's update-permission lowering it and remove-permission
\* removing it are answered 200 and leave the project, which still exists,
\* without any 'admin' permission.
C23_NoLastAdminGuard ==
    CanStart =>
       \A r \in UpdateProjectPermissionRequests
                \cup RemoveProjectPermissionRequests :
          LET out == Outcome(r)
          IN (/\ ProjectExists(r.a.project_id)
              /\ IsAdmin(Held(r.a.admin_user_id, r.a.project_id))
              /\ Admins(DB, r.a.project_id) = {Held(r.a.user_id, r.a.project_id)}
              /\ r.op = "update_project_permission" =>
                    r.a.permission_update.permission_level # "admin")
             => /\ out.r.status = 200
                /\ Admins(out.db, r.a.project_id) = {}
                /\ get_project(out.db, r.a.project_id) # None

\* C23 witness: an update- or remove-permission was answered 200 and a
\* project of the table has no 'admin' permission, though another permission
\* on it remains
C23_Witness ==
    /\ last.op \in {"update_project_permission", "remove_project_permission"}
    /\ last.status = 200
    /\ \E p \in projects :
          /\ Admins(DB, p.id) = {}
          /\ \E g \in perms : g.project_id = p.id

\* no create-project served after a delete-project answered 200 mints the id
\* of the project deleted
NoIdAgain ==
    \A d \in DeleteProjectRequests :
       LET deleted == Outcome(d)
       IN deleted.r.status = 200 =>
             \A r \in CreateProjectRequests :
                LET created == Run(deleted.db, r)
                IN created.r.status = 200 =>
                      created.r.body.id # d.a.project_id

\* C24 (as claimed): once a project is deleted, no create-project makes a
\* project of its id exist again.
C24_DeletionTerminal == CanStart => NoIdAgain

\* the same where the ids come from a sequence
SequenceNeverReuses == (CanStart /\ dialect = "postgresql") => NoIdAgain

\* every create-project answered 200 leaves exactly the creator's 'admin'
\* permission on the project it created
OnlyCreatorAdmin ==
    \A r \in CreateProjectRequests :
       LET out == Outcome(r)
       IN out.r.status = 200 =>
             {g \in out.db.perms : g.project_id = out.r.body.id}
                = {[user_id |-> r.a.user_id, project_id |-> out.r.body.id,
                    permission_level |-> "admin"]}

\* C25 (as claimed): whatever requests ran before, the permissions on the
\* project of a successful create-project are exactly the creator's 'admin'.
C25_FreshGrants == CanStart => OnlyCreatorAdmin

\* the same with foreign keys enforced
FreshGrantsEnforced == (CanStart /\ dialect = "postgresql") => OnlyCreatorAdmin

\* C26 (as claimed): a list read while permissions and projects change shows
\* what some single state of the tables holds: no private project tagged
\* 'public_access'.
C26_ListConsistent ==
    \A c \in Clients :
       (/\ reqs[c] # Idle
        /\ reqs[c].pc = "done"
        /\ reqs[c].op = "read_user_projects"
        /\ reqs[c].status = 200) =>
          \A i \in 1..Len(reqs[c].body) :
             reqs[c].body[i].permission_level = "public_access" =>
                reqs[c].body[i].is_public = TRUE

\* the same of a list read with no other request running meanwhile
ListAloneConsistent ==
    (\A c \in Clients : reqs[c] = Idle) =>
       \A r \in ReadUserProjectsRequests :
          LET out == Outcome(r)
          IN out.r.status = 200 =>
                \A i \in 1..Len(out.r.body) :
                   out.r.body[i].permission_level = "public_access" =>
                      out.r.body[i].is_public = TRUE

\* the user of gated request r holds, in the tables as they are, the
\* permission the handler of r checks for
GateOpen(r) ==
    IF r.op = "update_project"
    THEN MayUpdate(Held(r.a.user_id, r.a.project_id))
    ELSE IsAdmin(Held(Actor(r), r.a.project_id))

\* client c's gated request runs its last statement and is answered 200
Commits(c) ==
    /\ reqs[c] # Idle
    /\ reqs[c].pc # "done"
    /\ reqs'[c].pc = "done"
    /\ reqs'[c].status = 200

\* C27 (as claimed): a gated request takes effect only if its user holds the
\* required permission in the tables its write commits on.
C27_GateAtCommit ==
    [][\A c \in Clients : Commits(c) => GateOpen(reqs[c])]_vars

\* the permissions of database db but the one of (user_id, project_id)
OtherGrants(db, user_id, project_id) ==
    {g \in db.perms : ~(g.user_id = user_id /\ g.project_id = project_id)}

\* the projects of database db but project_id, and the permissions on them
OtherProjects(db, project_id) == {p \in db.projects : p.id # project_id}
GrantsElsewhere(db, project_id) == {g \in db.perms : g.project_id # project_id}

\* C28: whatever they answer, update-permission and remove-permission for
\* (user, project) leave every other permission, every project and every user
\* as they were; update-project leaves all permissions and every other
\* project; delete-project leaves every other project and the permissions on
\* other projects.
C28_Frame ==
    CanStart =>
       /\ \A r \in UpdateProjectPermissionRequests
                   \cup RemoveProjectPermissionRequests :
             LET out == Outcome(r)
             IN /\ OtherGrants(out.db, r.a.user_id, r.a.project_id)
                      = OtherGrants(DB, r.a.user_id, r.a.project_id)
                /\ out.db.projects = projects
                /\ out.db.users = users
       /\ \A r \in UpdateProjectRequests :
             LET out == Outcome(r)
             IN /\ out.db.perms = perms
                /\ OtherProjects(out.db, r.a.project_id)
                      = OtherProjects(DB, r.a.project_id)
                /\ out.db.users = users
       /\ \A r \in DeleteProjectRequests :
             LET out == Outcome(r)
             IN /\ OtherProjects(out.db, r.a.project_id)
                      = OtherProjects(DB, r.a.project_id)
                /\ GrantsElsewhere(out.db, r.a.project_id)
                      = GrantsElsewhere(DB, r.a.project_id)
                /\ out.db.users = users

\* C28 witness: a remove-permission was answered 200 while the user it names
\* holds a permission on another project, and another user one on the same
C28_Witness ==
    /\ last = [op |-> "remove_project_permission", status |-> 200]
    /\ \E g1, g2 \in perms :
          /\ g1.user_id # g2.user_id
          /\ g1.project_id # g2.project_id
    /\ Cardinality(projects) = 2

\* save_uploaded_image accepts the file
Accepted(file) ==
    file.content_type \in ALLOWED_IMAGE_TYPES /\ file.extension # ""

\* C29 (as claimed): an upload of an accepted file for a user_id that no user
\* has is answered 404, leaves no file and creates no project and no
\* permission.
C29_UploadUnknownUser ==
    CanUpload =>
       \A a \in UploadRequests :
          LET out == upload_image_and_create_project(DB, uploads, a)
          IN (Accepted(a.file) /\ get_user(DB, a.user_id) = None) =>
                (out.status = 404 /\ out.uploads = uploads /\ out.db = DB)

\* the same but for the status
UnknownUserCleanup ==
    CanUpload =>
       \A a \in UploadRequests :
          LET out == upload_image_and_create_project(DB, uploads, a)
          IN (Accepted(a.file) /\ get_user(DB, a.user_id) = None) =>
                (out.status = 500 /\ out.uploads = uploads /\ out.db = DB)

\* C30 (as claimed): the project an upload answered 200 created has as
\* image_path the path of the saved file, which the response returns.
C30_ImagePath ==
    CanUpload =>
       \A a \in UploadRequests :
          LET out == upload_image_and_create_project(DB, uploads, a)
          IN out.status = 200 =>
                get_project(out.db, out.body.project_id).image_path
                   = out.body.image_path

\* the rest of what an upload answered 200 does: the file is saved at the
\* path returned and the project is created with the name and is_public sent
\* and the uploader's 'admin' permission
UploadCreatesProject ==
    CanUpload =>
       \A a \in UploadRequests :
          LET out == upload_image_and_create_project(DB, uploads, a)
          IN out.status = 200 =>
                LET db_project == get_project(out.db, out.body.project_id)
                IN /\ \E f \in out.uploads \ uploads : f.path = out.body.image_path
                   /\ get_project(DB, out.body.project_id) = None
                   /\ db_project.name = a.project_name
                   /\ db_project.is_public = a.is_public
                   /\ IsAdmin(get_user_project_permission(out.db, a.user_id,
                                                          out.body.project_id))

====
